---- MODULE Spec2Model ----
(***************************************************************************)
(* Model of the self-correcting Graph-RAG query pipeline of                *)
(* backend/agent.py: the LangGraph workflow query_generator ->             *)
(* query_executor -> should_retry -> (query_generator |                    *)
(* response_synthesizer | fail_handler) -> END, driven by process_query.   *)
(*                                                                         *)
(* Python values are represented as follows.                               *)
(*   - Optional[T]: None is <<>>, a present value v is <<v>>.              *)
(*   - short atomic strings (question, error message, model answer) are    *)
(*     TLA+ strings; "" is the empty string.                               *)
(*   - composed texts (a model response, a query, a prompt block, the      *)
(*     final answer) are sequences of string chunks; <<>> is "".           *)
(*   - a result row is a record of tagged values [kind, val].              *)
(***************************************************************************)
EXTENDS Integers, Sequences, FiniteSets, TLC

\* ------------------------------------------------------------------------
\* Configuration and bounds
\* ------------------------------------------------------------------------

\* agent.py:41
MAX_RETRIES == 3

\* largest number of rows the graph store returns in one result
MaxRows == 2

\* largest number of chunks the streaming model delivers for one answer
MaxChunks == 2

\* largest number of chunks of a model response given to the query extraction
MaxResponseLen == 5

\* largest number of driver instances created in one run
MaxDrivers == 3

\* agent.py:389, 392: the number of rows listed in the synthesis prompt
ResultsLimit == 20

\* largest number of rows handed to the response synthesizer
MaxSynthRows == 22

\* ------------------------------------------------------------------------
\* Python helpers
\* ------------------------------------------------------------------------

None == <<>>

Some(v) == <<v>>

\* truth value of an Optional[str]: None and "" are both falsy
Truthy(e) == e # None /\ e[1] # ""

\* text of an atomic string as a chunk sequence
Str(s) == IF s = "" THEN <<>> ELSE <<s>>

\* f-string rendering of an Optional[str]
FmtOpt(e) == IF e = None THEN <<"None">> ELSE Str(e[1])

Digits == <<"0", "1", "2", "3", "4", "5", "6", "7", "8", "9">>

RECURSIVE FmtInt(_)
\* f-string rendering of a non-negative int
FmtInt(n) == IF n < 10 THEN <<Digits[n + 1]>>
             ELSE FmtInt(n \div 10) \o <<Digits[(n % 10) + 1]>>

IsSpace(t) == t \in {" ", "\n"}

RECURSIVE LStrip(_)
LStrip(s) == IF s # <<>> /\ IsSpace(Head(s)) THEN LStrip(Tail(s)) ELSE s

RECURSIVE RStrip(_)
RStrip(s) == IF s # <<>> /\ IsSpace(s[Len(s)])
             THEN RStrip(SubSeq(s, 1, Len(s) - 1)) ELSE s

\* str.strip()
Strip(s) == RStrip(LStrip(s))

\* index of the first occurrence of sep in s, 0 when there is none
Find(s, sep) ==
    LET hits == {i \in 1..(Len(s) - Len(sep) + 1) :
                    SubSeq(s, i, i + Len(sep) - 1) = sep}
    IN IF hits = {} THEN 0 ELSE CHOOSE i \in hits : \A j \in hits : i <= j

\* the substring test (Python: sep in s)
Contains(s, sep) == Find(s, sep) # 0

RECURSIVE Split(_, _)
\* str.split(sep): the list of parts between the occurrences of sep
Split(s, sep) ==
    LET i == Find(s, sep)
    IN IF i = 0 THEN <<s>>
       ELSE <<SubSeq(s, 1, i - 1)>> \o Split(SubSeq(s, i + Len(sep), Len(s)), sep)

\* the three-backtick code fence, one chunk
Fence == <<"<fence>">>

\* the fence immediately followed by the language tag cypher
FenceCypher == <<"<fence>", "cypher">>

\* the extraction without the strip of a response that has no fence
ExtractCypher_untrimmed(response) ==
    LET cypher == Strip(response)
    IN IF Contains(cypher, FenceCypher)
       THEN Strip(Split(Split(cypher, FenceCypher)[2], Fence)[1])
       ELSE IF Contains(cypher, Fence)
            THEN Strip(Split(Split(cypher, Fence)[2], Fence)[1])
            ELSE response

\* agent.py:321-326, the extraction of the query from the model response
ExtractCypher(response) ==
    LET cypher == Strip(response)
    IN IF Contains(cypher, FenceCypher)
       THEN Strip(Split(Split(cypher, FenceCypher)[2], Fence)[1])
       ELSE IF Contains(cypher, Fence)
            THEN Strip(Split(Split(cypher, Fence)[2], Fence)[1])
            ELSE cypher

\* ------------------------------------------------------------------------
\* Collaborators: what the generative model and the graph store may answer
\* ------------------------------------------------------------------------

Questions == {"How many anomalies are there by type?", "Show me all critical cracks"}

\* responses of the generative model to a generation prompt
GenResponses ==
    { <<"MATCH (a:Anomaly) RETURN a">>,
      <<"<fence>", "cypher", "\n", "MATCH (t:Track) RETURN t", "\n", "<fence>">> }

\* answers of the generative model to a synthesis prompt
SynthAnswers == {"", "There are 5 cracks."}

\* str(e) of the exceptions the store call may raise
ErrorMessages == {"", "Invalid property name", "timed out"}

Scalar(v) == [kind |-> "scalar", val |-> v]

\* a value with an isoformat attribute
DateTime(iso) == [kind |-> "datetime", val |-> iso]

\* a value with a __dict__ attribute: a graph node or relationship
Node(props) == [kind |-> "node", val |-> props]

\* records as returned by GraphRepository.execute_cypher
StoreRows ==
    { [type |-> Scalar("crack"), detected_at |-> DateTime("2025-01-10T14:30:00")],
      [a |-> Node("anomaly_id: ANOM-1"), count |-> Scalar("5")] }

RECURSIVE SeqsUpTo(_, _)
SeqsUpTo(S, n) ==
    IF n = 0 THEN {<<>>}
    ELSE LET shorter == SeqsUpTo(S, n - 1)
         IN shorter \cup {Append(s, x) : s \in {t \in shorter : Len(t) = n - 1}, x \in S}

StoreResults == SeqsUpTo(StoreRows, MaxRows)

\* outcome of one GraphRepository.execute_cypher call
StoreOutcomes ==
    {[ok |-> TRUE, rows |-> r, msg |-> ""] : r \in StoreResults}
    \cup {[ok |-> FALSE, rows |-> <<>>, msg |-> m] : m \in ErrorMessages}

\* ------------------------------------------------------------------------
\* State
\* ------------------------------------------------------------------------

VARIABLES
    pc,          \* node of the workflow about to run, or END / returned / raised
    state,       \* the AgentState flowing through the workflow
    result,      \* Optional: the dict process_query returned
    prompts,     \* generation prompts sent so far, each with the model's response
                 \* or the fact that the call raised
    execLog,     \* executions so far: the query run and the store's outcome
    decisions,   \* should_retry decisions so far
    terminals,   \* terminal nodes entered so far
    llmCalls,    \* generative-model calls issued so far
    session,     \* graph-store sessions the request holds open
    locals,      \* local variables of process_query_streaming
    events,      \* events process_query_streaming has yielded so far
    chunkReqs,   \* chunks requested from the streaming model so far
    consumer,    \* "reading" until the caller abandons the stream
    chat,        \* Optional: the ChatResponse of the HTTP chat endpoint
    peer,        \* Optional: a second batch request running at the same time
    asked,       \* synthesis prompts sent to the generative model so far
    conn         \* Neo4jConnection: the class attribute _driver and its callers

vars == <<pc, state, result, prompts, execLog, decisions, terminals, llmCalls,
          session, locals, events, chunkReqs, consumer, chat, peer, asked, conn>>

\* what the batch workflow never touches
otherVars == <<locals, events, chunkReqs, consumer, chat, peer, conn>>

\* what only the response synthesizer touches
synthVars == <<asked>>

\* what process_query_streaming never touches
batchVars == <<state, result, decisions, terminals, chat, peer, asked, conn>>

\* threads that may call Neo4jConnection.get_driver at the same time
Threads == {1, 2}

\* graph_db.py:83, the class before any call: _driver is None; made counts
\* the driver instances created so far, created those since the last close,
\* received holds what get_driver has returned since the last close
no_connection ==
    [driver |-> None,
     made |-> 0,
     created |-> 0,
     received |-> {},
     callers |-> [t \in Threads |-> "idle"]]

\* agent.py:515-523
initial_state(question) ==
    [question |-> question,
     cypher_query |-> <<>>,
     db_results |-> <<>>,
     error |-> None,
     retry_count |-> 0,
     final_answer |-> <<>>,
     structured_data |-> None]

\* agent.py:538, the frame of process_query_streaming at entry
stream_locals(question) ==
    [question |-> question, cypher |-> <<>>, serializable_results |-> <<>>]

\* nothing logged, no session open, no stream consumed, no HTTP response
NothingYet ==
    /\ prompts = <<>>
    /\ execLog = <<>>
    /\ llmCalls = 0
    /\ session = 0
    /\ events = <<>>
    /\ chunkReqs = 0
    /\ consumer = "reading"
    /\ chat = None
    /\ peer = None
    /\ asked = <<>>
    /\ conn = no_connection

Init ==
    /\ pc = "query_generator"
    /\ state \in {initial_state(q) : q \in Questions}
    /\ locals = stream_locals(state.question)
    /\ result = None
    /\ decisions = <<>>
    /\ terminals = <<>>
    /\ NothingYet

\* ------------------------------------------------------------------------
\* Node functions
\* ------------------------------------------------------------------------

\* error_context with the retry test off by one
error_context_late(s) ==
    IF Truthy(s.error) /\ s.retry_count > 1
    THEN <<"## Previous Query Error: Your previous query failed with error: ">>
         \o FmtOpt(s.error)
         \o <<" Previous query was: ">>
         \o s.cypher_query
         \o <<" Please fix the syntax error and try again.">>
    ELSE <<>>

\* agent.py:298-310
error_context(s) ==
    IF Truthy(s.error) /\ s.retry_count > 0
    THEN <<"## Previous Query Error: Your previous query failed with error: ">>
         \o FmtOpt(s.error)
         \o <<" Previous query was: ">>
         \o s.cypher_query
         \o <<" Please fix the syntax error and try again.">>
    ELSE <<>>

\* agent.py:314-319, the variables handed to CYPHER_GENERATION_PROMPT
generation_prompt(s) ==
    [error_context |-> error_context(s), question |-> s.question]

\* query_generator that forgets to clear the previous error
query_generator_keeps_error(s, response) ==
    [s EXCEPT !.cypher_query = ExtractCypher(response)]

\* agent.py:321-332
query_generator(s, response) ==
    [s EXCEPT !.cypher_query = ExtractCypher(response), !.error = None]

\* agent.py:343-354, one field value made JSON-serializable
clean_value(v) ==
    IF v.kind = "datetime" THEN [kind |-> "str", val |-> v.val]
    ELSE IF v.kind = "node" THEN [kind |-> "dict", val |-> v.val]
    ELSE v

clean_record(record) == [key \in DOMAIN record |-> clean_value(record[key])]

serializable_results(results) ==
    [i \in 1..Len(results) |-> clean_record(results[i])]

\* query_executor that counts every run, not only the failed ones
query_executor_counts_every_run(s, outcome) ==
    IF outcome.ok
    THEN [s EXCEPT !.db_results = serializable_results(outcome.rows),
                   !.error = None,
                   !.retry_count = @ + 1]
    ELSE [s EXCEPT !.db_results = <<>>,
                   !.error = Some(outcome.msg),
                   !.retry_count = @ + 1]

\* query_executor that resets the counter when a run succeeds
query_executor_resets_count(s, outcome) ==
    IF outcome.ok
    THEN [s EXCEPT !.db_results = serializable_results(outcome.rows),
                   !.error = None,
                   !.retry_count = 0]
    ELSE [s EXCEPT !.db_results = <<>>,
                   !.error = Some(outcome.msg),
                   !.retry_count = @ + 1]

\* query_executor that does not record the error of a failed run
query_executor_drops_error(s, outcome) ==
    IF outcome.ok
    THEN [s EXCEPT !.db_results = serializable_results(outcome.rows),
                   !.error = None]
    ELSE [s EXCEPT !.db_results = <<>>,
                   !.retry_count = @ + 1]

\* agent.py:335-369
query_executor(s, outcome) ==
    IF outcome.ok
    THEN [s EXCEPT !.db_results = serializable_results(outcome.rows),
                   !.error = None]
    ELSE [s EXCEPT !.db_results = <<>>,
                   !.error = Some(outcome.msg),
                   !.retry_count = @ + 1]

\* should_retry that gives up one failure early
should_retry_fails_early(s) ==
    IF Truthy(s.error)
    THEN IF s.retry_count < MAX_RETRIES - 1 THEN "retry" ELSE "fail"
    ELSE "synthesize"

\* should_retry without the limit: a failed execution is always retried
should_retry_never_gives_up(s) ==
    IF Truthy(s.error) THEN "retry" ELSE "synthesize"

\* should_retry with <= in place of <: one retry too many
should_retry_off_by_one(s) ==
    IF Truthy(s.error)
    THEN IF s.retry_count <= MAX_RETRIES THEN "retry" ELSE "fail"
    ELSE "synthesize"

\* should_retry that tests the counter before the error
should_retry_counter_first(s) ==
    IF s.retry_count >= MAX_RETRIES THEN "fail"
    ELSE IF Truthy(s.error) THEN "retry" ELSE "synthesize"

\* graph_db.py:106-107, driver.session() on entering the context manager
session_enter(open) == open + 1

\* a context manager that closes the session only when the body succeeds
session_exit_without_finally(open, ok) == IF ok THEN open - 1 ELSE open

\* graph_db.py:108-111, the finally clause: the session is closed whether
\* the body returned or raised
session_exit(open, ok) == open - 1

\* agent.py:409-418
should_retry(s) ==
    IF Truthy(s.error)
    THEN IF s.retry_count < MAX_RETRIES THEN "retry" ELSE "fail"
    ELSE "synthesize"

\* the retry edge wired back to query_executor: the same query is run again
edge_target_retry_reexecutes(decision) ==
    CASE decision = "retry" -> "query_executor"
      [] decision = "synthesize" -> "response_synthesizer"
      [] decision = "fail" -> "fail_handler"

\* agent.py:465-473, the conditional edges out of query_executor
edge_target(decision) ==
    CASE decision = "retry" -> "query_generator"
      [] decision = "synthesize" -> "response_synthesizer"
      [] decision = "fail" -> "fail_handler"

\* the rows of the results text, none left out
results_text_unclipped(rows) ==
    [lines |-> [i \in 1..Len(rows) |-> [number |-> FmtInt(i), record |-> rows[i]]],
     more |-> IF Len(rows) > ResultsLimit
              THEN Some(FmtInt(Len(rows) - ResultsLimit)) ELSE None]

\* agent.py:387-393, the text given to the model: one numbered line per row
\* for the first rows, and the line "... and k more results" when rows are
\* left out
results_text(rows) ==
    [lines |-> [i \in 1..(IF Len(rows) < ResultsLimit THEN Len(rows) ELSE ResultsLimit)
                  |-> [number |-> FmtInt(i), record |-> rows[i]]],
     more |-> IF Len(rows) > ResultsLimit
              THEN Some(FmtInt(Len(rows) - ResultsLimit)) ELSE None]

\* agent.py:397-400, the variables handed to RESPONSE_SYNTHESIS_PROMPT
synthesis_prompt(s) ==
    [question |-> s.question, results |-> results_text(s.db_results)]

\* agent.py:380-385
no_results_answer(s) ==
    <<"I couldn't find any results for your query: '">>
    \o Str(s.question)
    \o <<"'. This might mean there's no matching data, or you could try rephrasing your question.">>

\* response_synthesizer without the empty-results branch: the model is asked
\* whatever the rows are
response_synthesizer_always_asks(s, answer) ==
    [s EXCEPT !.final_answer = Str(answer),
              !.structured_data = Some(s.db_results)]

\* agent.py:372-406; answer is the model's text, unused when there are no rows
response_synthesizer(s, answer) ==
    IF s.db_results = <<>>
    THEN [s EXCEPT !.final_answer = no_results_answer(s),
                   !.structured_data = Some(<<>>)]
    ELSE [s EXCEPT !.final_answer = Str(answer),
                   !.structured_data = Some(s.db_results)]

\* handle_failure that also clears the error it reports
handle_failure_clears_error(s) ==
    [s EXCEPT !.final_answer =
                  <<"I'm sorry, I couldn't process your query after ">>
                  \o FmtInt(MAX_RETRIES)
                  \o <<" attempts. The last error was: ">>
                  \o FmtOpt(s.error)
                  \o <<". Please try rephrasing your question or ask for help with the specific query.">>,
              !.structured_data = Some(<<>>),
              !.error = None]

\* agent.py:421-429
handle_failure(s) ==
    [s EXCEPT !.final_answer =
                  <<"I'm sorry, I couldn't process your query after ">>
                  \o FmtInt(MAX_RETRIES)
                  \o <<" attempts. The last error was: ">>
                  \o FmtOpt(s.error)
                  \o <<". Please try rephrasing your question or ask for help with the specific query.">>,
              !.structured_data = Some(<<>>)]

\* agent.py:528-535
query_result(s) ==
    [question |-> s.question,
     cypher_query |-> s.cypher_query,
     answer |-> s.final_answer,
     data |-> s.structured_data,
     error |-> s.error,
     retries |-> s.retry_count]

\* ------------------------------------------------------------------------
\* Steps of the workflow
\* ------------------------------------------------------------------------

\* query_generator runs and the model answers with response
GenerateOk(response) ==
    /\ pc = "query_generator"
    /\ prompts' = Append(prompts, [prompt |-> generation_prompt(state),
                                   response |-> response,
                                   raised |-> FALSE])
    /\ llmCalls' = llmCalls + 1
    /\ state' = query_generator(state, response)
    /\ pc' = "query_executor"
    /\ UNCHANGED <<session, otherVars, synthVars>>
    /\ UNCHANGED <<result, execLog, decisions, terminals>>

\* a failed generation call handled like a failed execution: counted and retried
GenerateRaises_retried ==
    /\ pc = "query_generator"
    /\ state.retry_count < MAX_RETRIES
    /\ prompts' = Append(prompts, [prompt |-> generation_prompt(state),
                                   response |-> <<>>,
                                   raised |-> TRUE])
    /\ llmCalls' = llmCalls + 1
    /\ state' = [state EXCEPT !.retry_count = @ + 1]
    /\ pc' = "query_generator"
    /\ UNCHANGED <<session, otherVars, synthVars>>
    /\ UNCHANGED <<result, execLog, decisions, terminals>>

\* query_generator runs and chain.invoke raises: nothing catches it in the
\* node, the workflow or process_query
GenerateRaises ==
    /\ pc = "query_generator"
    /\ prompts' = Append(prompts, [prompt |-> generation_prompt(state),
                                   response |-> <<>>,
                                   raised |-> TRUE])
    /\ llmCalls' = llmCalls + 1
    /\ pc' = "raised"
    /\ UNCHANGED <<session, otherVars, synthVars>>
    /\ UNCHANGED <<state, result, execLog, decisions, terminals>>

\* query_executor runs: execute_cypher enters the session context manager
OpenSession ==
    /\ pc = "query_executor"
    /\ session' = session_enter(session)
    /\ pc' = "execute_cypher"
    /\ UNCHANGED <<state, result, prompts, execLog, decisions, terminals, llmCalls>>
    /\ UNCHANGED <<otherVars, synthVars>>

\* session.run ends with outcome, the context manager exits, and
\* query_executor returns the new state
Execute(outcome) ==
    /\ pc = "execute_cypher"
    /\ session' = session_exit(session, outcome.ok)
    /\ execLog' = Append(execLog, [query |-> state.cypher_query, outcome |-> outcome])
    /\ state' = query_executor(state, outcome)
    /\ pc' = "should_retry"
    /\ UNCHANGED <<result, prompts, decisions, terminals, llmCalls>>
    /\ UNCHANGED <<otherVars, synthVars>>

\* the conditional edge after query_executor
Route ==
    /\ pc = "should_retry"
    /\ decisions' = Append(decisions, should_retry(state))
    /\ pc' = edge_target(should_retry(state))
    /\ UNCHANGED <<session, otherVars, synthVars>>
    /\ UNCHANGED <<state, result, prompts, execLog, terminals, llmCalls>>

\* response_synthesizer runs to completion
SynthesizeOk(answer) ==
    /\ pc = "response_synthesizer"
    /\ terminals' = Append(terminals, "response_synthesizer")
    /\ llmCalls' = IF state.db_results = <<>> THEN llmCalls ELSE llmCalls + 1
    /\ asked' = IF state.db_results = <<>> THEN asked
                ELSE Append(asked, synthesis_prompt(state))
    /\ state' = response_synthesizer(state, answer)
    /\ pc' = "END"
    /\ UNCHANGED <<session, otherVars>>
    /\ UNCHANGED <<result, prompts, execLog, decisions>>

\* response_synthesizer runs on rows and chain.invoke raises
SynthesizeRaises ==
    /\ pc = "response_synthesizer"
    /\ state.db_results # <<>>
    /\ terminals' = Append(terminals, "response_synthesizer")
    /\ llmCalls' = llmCalls + 1
    /\ asked' = Append(asked, synthesis_prompt(state))
    /\ pc' = "raised"
    /\ UNCHANGED <<session, otherVars>>
    /\ UNCHANGED <<state, result, prompts, execLog, decisions>>

\* fail_handler asking the generative model to word the apology
Fail_asks_model ==
    /\ pc = "fail_handler"
    /\ terminals' = Append(terminals, "fail_handler")
    /\ llmCalls' = llmCalls + 1
    /\ state' = handle_failure(state)
    /\ pc' = "END"
    /\ UNCHANGED <<session, otherVars, synthVars>>
    /\ UNCHANGED <<result, prompts, execLog, decisions>>

\* fail_handler wired to response_synthesizer instead of END
Fail_falls_through ==
    /\ pc = "fail_handler"
    /\ terminals' = Append(terminals, "fail_handler")
    /\ state' = handle_failure(state)
    /\ pc' = "response_synthesizer"
    /\ UNCHANGED <<session, otherVars, synthVars>>
    /\ UNCHANGED <<result, prompts, execLog, decisions, llmCalls>>

\* fail_handler runs
Fail ==
    /\ pc = "fail_handler"
    /\ terminals' = Append(terminals, "fail_handler")
    /\ state' = handle_failure(state)
    /\ pc' = "END"
    /\ UNCHANGED <<session, otherVars, synthVars>>
    /\ UNCHANGED <<result, prompts, execLog, decisions, llmCalls>>

\* process_query returns the final snapshot
Return ==
    /\ pc = "END"
    /\ result' = Some(query_result(state))
    /\ pc' = "returned"
    /\ UNCHANGED <<session, otherVars, synthVars>>
    /\ UNCHANGED <<state, prompts, execLog, decisions, terminals, llmCalls>>

Next ==
    \/ \E response \in GenResponses : GenerateOk(response)
    \/ GenerateRaises
    \/ OpenSession
    \/ \E outcome \in StoreOutcomes : Execute(outcome)
    \/ Route
    \/ \E answer \in SynthAnswers : SynthesizeOk(answer)
    \/ SynthesizeRaises
    \/ Fail
    \/ Return

Spec == Init /\ [][Next]_vars

\* every collaborator call returns or raises and the workflow then takes its
\* next step: a request never stops at a node that can run
FairSpec == Spec /\ WF_vars(Next)

\* ------------------------------------------------------------------------
\* The router applied to any state
\* ------------------------------------------------------------------------

\* states handed to should_retry: every error value, every counter up to one
\* past the maximum, with and without rows
RouterStates ==
    {[initial_state(q) EXCEPT !.error = e, !.retry_count = n, !.db_results = r] :
        q \in Questions,
        e \in {None} \cup {Some(m) : m \in ErrorMessages},
        n \in 0..(MAX_RETRIES + 1),
        r \in {t \in StoreResults : Len(t) <= 1}}

RouterInit ==
    /\ pc = "should_retry"
    /\ state \in RouterStates
    /\ locals = stream_locals(state.question)
    /\ result = None
    /\ decisions = <<>>
    /\ terminals = <<>>
    /\ NothingYet

RouterNext == Route

RouterSpec == RouterInit /\ [][RouterNext]_vars

\* ------------------------------------------------------------------------
\* Properties
\* ------------------------------------------------------------------------

Last(s) == s[Len(s)]

\* the executions among the first n that failed
FailedRuns(n) == {i \in 1..n : ~execLog[i].outcome.ok}

\* the first n executions all failed with a non-empty message
AllFailedNonEmpty(n) ==
    \A i \in 1..n : ~execLog[i].outcome.ok /\ execLog[i].outcome.msg # ""

\* process_query has a final snapshot
Finished == pc \in {"END", "returned"}

\* C1: while every store execution fails with a non-empty message, the router
\* answers retry after failures 1..R-1 and fail after failure R, the executor
\* never runs more than R times, and a request that ends this way has run it
\* exactly R times.
C1_BoundedAttempts ==
    /\ Len(execLog) <= MAX_RETRIES
    /\ \A i \in 1..Len(decisions) :
          AllFailedNonEmpty(i) =>
              decisions[i] = IF i < MAX_RETRIES THEN "retry" ELSE "fail"
    /\ (Finished /\ AllFailedNonEmpty(Len(execLog))) => Len(execLog) = MAX_RETRIES

C1_Witness ==
    /\ pc = "returned"
    /\ Len(execLog) = MAX_RETRIES
    /\ AllFailedNonEmpty(MAX_RETRIES)
    /\ decisions = <<"retry", "retry", "fail">>

\* C2: the router returns retry iff the error is non-empty and the counter is
\* below R, fail iff the error is non-empty and the counter is at least R,
\* synthesize iff the error is empty (None or ""), and leaves the state as it was.
C2_RouterDecision ==
    /\ [](decisions # <<>> =>
            LET pending == state.error # None /\ state.error # Some("")
            IN /\ decisions[1] \in {"retry", "synthesize", "fail"}
               /\ decisions[1] = "retry" <=> (pending /\ state.retry_count < MAX_RETRIES)
               /\ decisions[1] = "fail" <=> (pending /\ state.retry_count >= MAX_RETRIES)
               /\ decisions[1] = "synthesize" <=> ~pending)
    /\ [][pc = "should_retry" => state' = state]_vars

C2_Witness ==
    /\ decisions = <<"fail">>
    /\ state.retry_count = MAX_RETRIES
    /\ state.error = Some("timed out")

\* C3: retry_count is the number of failed executor runs so far: 0 at the
\* start, one more after each failed run, unchanged by every other step, and
\* always between 0 and R.
C3_RetryCount ==
    /\ [](/\ state.retry_count = Cardinality(FailedRuns(Len(execLog)))
          /\ 0 <= state.retry_count
          /\ state.retry_count <= MAX_RETRIES)
    /\ [][state'.retry_count =
            IF Len(execLog') = Len(execLog) + 1 /\ ~Last(execLog').outcome.ok
            THEN state.retry_count + 1
            ELSE state.retry_count]_vars

C3_Witness ==
    /\ pc = "returned"
    /\ state.retry_count = 2
    /\ Len(execLog) = 3
    /\ Last(execLog).outcome.ok

\* the executor has just run: the router is about to decide
AfterExecute == pc = "should_retry" /\ execLog # <<>>

RowsNonEmpty == state.db_results # <<>>

ErrorNonEmpty == state.error # None /\ state.error # Some("")

\* C4 as stated: after any executor run exactly one of result_rows and
\* last_error is non-empty, and after a failed run result_rows is empty.
C4_ExactlyOne ==
    AfterExecute =>
        /\ RowsNonEmpty # ErrorNonEmpty
        /\ ~Last(execLog).outcome.ok => ~RowsNonEmpty

\* C4 amended: after any executor run result_rows and last_error are never
\* both non-empty; a failed run leaves result_rows empty and last_error set to
\* the store's message, a successful run leaves last_error None and
\* result_rows as long as the store's result; both are empty exactly after a
\* success with zero rows or a failure with an empty message.
C4_AtMostOne ==
    AfterExecute =>
        LET run == Last(execLog).outcome
        IN /\ ~(RowsNonEmpty /\ ErrorNonEmpty)
           /\ ~run.ok => (~RowsNonEmpty /\ state.error = Some(run.msg))
           /\ run.ok => (state.error = None
                         /\ Len(state.db_results) = Len(run.rows))
           /\ (~RowsNonEmpty /\ ~ErrorNonEmpty)
                 <=> ((run.ok /\ run.rows = <<>>) \/ (~run.ok /\ run.msg = ""))

C4_Witness ==
    /\ AfterExecute
    /\ Last(execLog).outcome.ok
    /\ Last(execLog).outcome.rows = <<>>
    /\ ~RowsNonEmpty
    /\ ~ErrorNonEmpty

C6_SuccessAfterFailures ==
    (result # None /\ Last(execLog).outcome.ok /\ Last(execLog).outcome.rows # <<>>) =>
        LET k == Len(execLog) - 1
            rows == Last(execLog).outcome.rows
        IN /\ \A i \in 1..k : ~execLog[i].outcome.ok
           /\ k < MAX_RETRIES
           /\ result[1].retries = k
           /\ result[1].error = None
           /\ result[1].data = Some(serializable_results(rows))
           /\ Len(result[1].data[1]) = Len(rows)
           /\ \A i \in 1..Len(rows) :
                 /\ DOMAIN result[1].data[1][i] = DOMAIN rows[i]
                 /\ \A key \in DOMAIN rows[i] :
                       LET raw == rows[i][key]
                           clean == result[1].data[1][i][key]
                       IN /\ clean.val = raw.val
                          /\ raw.kind = "datetime" => clean.kind = "str"
                          /\ raw.kind = "node" => clean.kind = "dict"
                          /\ raw.kind = "scalar" => clean.kind = "scalar"

C6_Witness ==
    /\ result # None
    /\ Len(execLog) = 3
    /\ Last(execLog).outcome.ok
    /\ Len(Last(execLog).outcome.rows) = 2
    /\ result[1].retries = 2

\* C7: the first generation prompt has no correction block; every later one
\* follows a failed execution and its correction block carries that
\* execution's error text and query.
C7_CorrectionBlock ==
    \A i \in 1..Len(prompts) :
        LET block == prompts[i].prompt.error_context
        IN /\ block # <<>> <=> (i > 1 /\ ~execLog[i - 1].outcome.ok)
           /\ i > 1 =>
                 /\ Len(execLog) >= i - 1
                 /\ ~execLog[i - 1].outcome.ok
                 /\ execLog[i - 1].outcome.msg # ""
                 /\ Contains(block, <<execLog[i - 1].outcome.msg>>)
                 /\ Contains(block, execLog[i - 1].query)
                 /\ execLog[i - 1].query = ExtractCypher(prompts[i - 1].response)

C7_Witness ==
    /\ Len(prompts) = 3
    /\ execLog[1].outcome.msg = "Invalid property name"
    /\ execLog[2].outcome.msg = "timed out"
    /\ Contains(prompts[2].prompt.error_context, <<"Invalid property name">>)
    /\ Contains(prompts[3].prompt.error_context, <<"timed out">>)

\* C8: after any generation step that completes, error is None and
\* cypher_query is the query extracted from the response just received.
C8_GenerationClearsError ==
    (pc = "query_executor") =>
        /\ prompts # <<>>
        /\ ~Last(prompts).raised
        /\ state.error = None
        /\ state.cypher_query = ExtractCypher(Last(prompts).response)
        /\ ~Contains(state.cypher_query, Fence)

C8_Witness ==
    /\ pc = "query_executor"
    /\ Len(execLog) = 1
    /\ execLog[1].outcome.msg = "Invalid property name"
    /\ execLog[1].query = <<"MATCH (a:Anomaly) RETURN a">>
    /\ state.cypher_query = <<"MATCH (t:Track) RETURN t">>
    /\ state.error = None

\* C9 as stated: when the store fails on all R execution attempts, the
\* result's answer is the failure handler's template naming R and echoing the
\* error of the R-th failure, data is the empty list and retries is R.
C9_ExhaustedRetries ==
    (Finished /\ Len(execLog) = MAX_RETRIES
              /\ \A i \in 1..MAX_RETRIES : ~execLog[i].outcome.ok) =>
        /\ terminals = <<"fail_handler">>
        /\ state.final_answer =
              <<"I'm sorry, I couldn't process your query after ", "3",
                " attempts. The last error was: ">>
              \o Str(Last(execLog).outcome.msg)
              \o <<". Please try rephrasing your question or ask for help with the specific query.">>
        /\ state.structured_data = Some(<<>>)
        /\ state.retry_count = MAX_RETRIES

\* C10: a generation call that raises ends the request at once: the state is
\* left as it was (retry_count included), nothing runs afterwards, and no
\* earlier generation call of the request had raised.
C10_GenerationAbort ==
    /\ [](\A i \in 1..Len(prompts) :
            prompts[i].raised =>
                /\ i = Len(prompts)
                /\ pc = "raised"
                /\ result = None
                /\ terminals = <<>>
                /\ Len(execLog) = i - 1
                /\ Len(decisions) = i - 1
                /\ state.retry_count = Cardinality(FailedRuns(i - 1)))
    /\ [][/\ pc # "raised"
          /\ (prompts' # prompts /\ Last(prompts').raised) => state' = state]_vars

C10_Witness ==
    /\ pc = "raised"
    /\ Len(prompts) = 2
    /\ Last(prompts).raised
    /\ state.retry_count = 1
    /\ state.error = Some("Invalid property name")

\* C11 as stated: every failed store call in the executor is contained and
\* handled alike: result_rows becomes empty, last_error the failure's message,
\* retry_count one more, and the router then answers retry (fail once the
\* counter has reached R), never synthesize.
C11_FailureHandledAlike ==
    /\ (AfterExecute /\ ~Last(execLog).outcome.ok) =>
          /\ state.db_results = <<>>
          /\ state.error = Some(Last(execLog).outcome.msg)
          /\ state.retry_count = Cardinality(FailedRuns(Len(execLog)))
    /\ \A i \in 1..Len(decisions) :
          ~execLog[i].outcome.ok =>
              decisions[i] = IF i < MAX_RETRIES THEN "retry" ELSE "fail"

\* C12 as stated: a generative-model call that raises inside the response
\* synthesizer is caught in the pipeline, so process_query never ends by
\* raising once the synthesizer has been entered.
C12_SynthesisFailureContained ==
    terminals # <<>> => pc # "raised"

\* C13: when the last execution succeeded with zero rows, the synthesizer's
\* final_answer is the no-results message around the original question,
\* structured_data is the empty list, and the only model calls of the request
\* are its generation calls.
C13_NoResults ==
    (Finished /\ Last(execLog).outcome.ok /\ Last(execLog).outcome.rows = <<>>) =>
        /\ terminals = <<"response_synthesizer">>
        /\ state.final_answer =
              <<"I couldn't find any results for your query: '",
                prompts[1].prompt.question,
                "'. This might mean there's no matching data, or you could try rephrasing your question.">>
        /\ state.structured_data = Some(<<>>)
        /\ llmCalls = Len(prompts)

C13_Witness ==
    /\ pc = "returned"
    /\ Len(execLog) = 2
    /\ Last(execLog).outcome.ok
    /\ Last(execLog).outcome.rows = <<>>
    /\ llmCalls = 2
    /\ Contains(result[1].answer, <<"Show me all critical cracks">>)

\* ------------------------------------------------------------------------
\* process_query_streaming
\* ------------------------------------------------------------------------

\* str(e) of the exceptions a generative-model call may raise
ModelErrors == {"API quota exceeded"}

\* chunk.content of the chunks the streaming model delivers
ChunkContents == {"", "There are 5 cracks."}

\* agent.py:587-596, the tag of the data event
stream_data_type(rows) ==
    IF rows = <<>> THEN "text"
    ELSE LET first == DOMAIN rows[1]
         IN IF "anomaly_type" \in first \/ "type" \in first \/ "severity" \in first
            THEN "anomalies"
            ELSE IF "track_id" \in first \/ "track_name" \in first
                 THEN "tracks"
                 ELSE IF "count" \in first THEN "stats" ELSE "text"

\* agent.py:568
cypher_event(query) == [type |-> "cypher", query |-> query]

\* agent.py:598
data_event(rows) ==
    [type |-> "data", data |-> rows, data_type |-> stream_data_type(rows)]

\* agent.py:606, 626
token_event(content) == [type |-> "token", content |-> content]

\* agent.py:601, 629
error_event(text) == [type |-> "error", error |-> text]

\* agent.py:606
stream_no_results_text(question) ==
    <<"I couldn't find any results for your query: '">>
    \o Str(question)
    \o <<"'. Try rephrasing or ask about anomalies, tracks, or inspections.">>

\* agent.py:551-559, the generation prompt of the streaming entry point
stream_generation_prompt(question) ==
    [error_context |-> <<>>, question |-> question]

\* the generator is suspended at a yield: the caller holds the last event
Suspended ==
    pc \in {"yield_cypher", "yield_data", "yield_db_error", "yield_canned",
            "yield_token", "yield_error"}

StreamInit ==
    /\ pc = "stream_generate"
    /\ locals \in {stream_locals(q) : q \in Questions}
    /\ state = initial_state(locals.question)
    /\ result = None
    /\ decisions = <<>>
    /\ terminals = <<>>
    /\ NothingYet

\* the streaming copy of the generation without the fence stripping
StreamGenerateOk_keeps_fence(response) ==
    /\ pc = "stream_generate"
    /\ prompts' = Append(prompts, [prompt |-> stream_generation_prompt(locals.question),
                                   response |-> response,
                                   raised |-> FALSE])
    /\ llmCalls' = llmCalls + 1
    /\ locals' = [locals EXCEPT !.cypher = Strip(response)]
    /\ events' = Append(events, cypher_event(Strip(response)))
    /\ pc' = "yield_cypher"
    /\ UNCHANGED <<execLog, session, chunkReqs, consumer>>
    /\ UNCHANGED batchVars

\* agent.py:549-568: the model answers, the query is extracted and yielded
StreamGenerateOk(response) ==
    /\ pc = "stream_generate"
    /\ prompts' = Append(prompts, [prompt |-> stream_generation_prompt(locals.question),
                                   response |-> response,
                                   raised |-> FALSE])
    /\ llmCalls' = llmCalls + 1
    /\ locals' = [locals EXCEPT !.cypher = ExtractCypher(response)]
    /\ events' = Append(events, cypher_event(ExtractCypher(response)))
    /\ pc' = "yield_cypher"
    /\ UNCHANGED <<execLog, session, chunkReqs, consumer>>
    /\ UNCHANGED batchVars

\* agent.py:554, 628-629: chain.invoke raises and the outer handler yields
\* an error event
StreamGenerateRaises(msg) ==
    /\ pc = "stream_generate"
    /\ prompts' = Append(prompts, [prompt |-> stream_generation_prompt(locals.question),
                                   response |-> <<>>,
                                   raised |-> TRUE])
    /\ llmCalls' = llmCalls + 1
    /\ events' = Append(events, error_event(Str(msg)))
    /\ pc' = "yield_error"
    /\ UNCHANGED <<locals, execLog, session, chunkReqs, consumer>>
    /\ UNCHANGED batchVars

\* agent.py:572: resumed after the cypher event, execute_cypher enters the
\* session context manager
StreamOpenSession ==
    /\ pc = "yield_cypher"
    /\ session' = session_enter(session)
    /\ pc' = "stream_execute_cypher"
    /\ UNCHANGED <<prompts, execLog, llmCalls, locals, events, chunkReqs, consumer>>
    /\ UNCHANGED batchVars

\* streaming with the batch pipeline's self-correction: a failed execution
\* goes back to generation
StreamExecute_retries(outcome) ==
    /\ pc = "stream_execute_cypher"
    /\ Len(execLog) < MAX_RETRIES
    /\ session' = session_exit(session, outcome.ok)
    /\ execLog' = Append(execLog, [query |-> locals.cypher, outcome |-> outcome])
    /\ IF outcome.ok
       THEN /\ locals' = [locals EXCEPT
                             !.serializable_results = serializable_results(outcome.rows)]
            /\ events' = Append(events, data_event(serializable_results(outcome.rows)))
            /\ pc' = "yield_data"
       ELSE /\ locals' = locals
            /\ events' = events
            /\ pc' = "stream_generate"
    /\ UNCHANGED <<prompts, llmCalls, chunkReqs, consumer>>
    /\ UNCHANGED batchVars

\* the data event carrying the store's records as they came
StreamExecute_raw_rows(outcome) ==
    /\ pc = "stream_execute_cypher"
    /\ session' = session_exit(session, outcome.ok)
    /\ execLog' = Append(execLog, [query |-> locals.cypher, outcome |-> outcome])
    /\ IF outcome.ok
       THEN /\ locals' = [locals EXCEPT
                             !.serializable_results = serializable_results(outcome.rows)]
            /\ events' = Append(events, data_event(outcome.rows))
            /\ pc' = "yield_data"
       ELSE /\ locals' = [locals EXCEPT !.serializable_results = <<>>]
            /\ events' = Append(events,
                                error_event(<<"Database error: ">> \o Str(outcome.msg)))
            /\ pc' = "yield_db_error"
    /\ UNCHANGED <<prompts, llmCalls, chunkReqs, consumer>>
    /\ UNCHANGED batchVars

\* agent.py:571-602: the store call ends with outcome and the context manager
\* exits; on success the rows are normalized and the data event is yielded,
\* on failure the inner handler yields an error event and empties the rows
StreamExecute(outcome) ==
    /\ pc = "stream_execute_cypher"
    /\ session' = session_exit(session, outcome.ok)
    /\ execLog' = Append(execLog, [query |-> locals.cypher, outcome |-> outcome])
    /\ IF outcome.ok
       THEN /\ locals' = [locals EXCEPT
                             !.serializable_results = serializable_results(outcome.rows)]
            /\ events' = Append(events, data_event(serializable_results(outcome.rows)))
            /\ pc' = "yield_data"
       ELSE /\ locals' = [locals EXCEPT !.serializable_results = <<>>]
            /\ events' = Append(events,
                                error_event(<<"Database error: ">> \o Str(outcome.msg)))
            /\ pc' = "yield_db_error"
    /\ UNCHANGED <<prompts, llmCalls, chunkReqs, consumer>>
    /\ UNCHANGED batchVars

\* agent.py:605-606: resumed after the data event or after the inner
\* handler's error event with no rows: the canned token is yielded
StreamNoResults ==
    /\ pc \in {"yield_data", "yield_db_error"}
    /\ locals.serializable_results = <<>>
    /\ events' = Append(events, token_event(stream_no_results_text(locals.question)))
    /\ pc' = "yield_canned"
    /\ UNCHANGED <<prompts, execLog, llmCalls, session, locals, chunkReqs, consumer>>
    /\ UNCHANGED batchVars

\* the streaming model asked whatever the rows are
StreamStart_on_empty ==
    /\ pc = "yield_data"
    /\ llmCalls' = llmCalls + 1
    /\ chunkReqs' = chunkReqs + 1
    /\ pc' = "await_chunk"
    /\ UNCHANGED <<prompts, execLog, session, locals, events, consumer>>
    /\ UNCHANGED batchVars

\* agent.py:607-624: resumed after the data event with rows: the streaming
\* model is called and its first chunk awaited
StreamStart ==
    /\ pc = "yield_data"
    /\ locals.serializable_results # <<>>
    /\ llmCalls' = llmCalls + 1
    /\ chunkReqs' = chunkReqs + 1
    /\ pc' = "await_chunk"
    /\ UNCHANGED <<prompts, execLog, session, locals, events, consumer>>
    /\ UNCHANGED batchVars

\* agent.py:624-626: a chunk arrives; one with content is yielded as a token,
\* an empty one is skipped and the next chunk awaited
StreamChunk(content) ==
    /\ pc = "await_chunk"
    /\ chunkReqs <= MaxChunks
    /\ IF content # ""
       THEN /\ events' = Append(events, token_event(Str(content)))
            /\ chunkReqs' = chunkReqs
            /\ pc' = "yield_token"
       ELSE /\ events' = events
            /\ chunkReqs' = chunkReqs + 1
            /\ pc' = "await_chunk"
    /\ UNCHANGED <<prompts, execLog, llmCalls, session, locals, consumer>>
    /\ UNCHANGED batchVars

\* agent.py:624: resumed after a token event, the next chunk is awaited
StreamNextChunk ==
    /\ pc = "yield_token"
    /\ chunkReqs' = chunkReqs + 1
    /\ pc' = "await_chunk"
    /\ UNCHANGED <<prompts, execLog, llmCalls, session, locals, events, consumer>>
    /\ UNCHANGED batchVars

\* agent.py:624: the model's stream is exhausted and the generator returns
StreamEnd ==
    /\ pc = "await_chunk"
    /\ pc' = "stream_done"
    /\ UNCHANGED <<prompts, execLog, llmCalls, session, locals, events, chunkReqs, consumer>>
    /\ UNCHANGED batchVars

\* a token stream outside the outer handler: its exception reaches the caller
StreamRaises_propagates(msg) ==
    /\ pc = "await_chunk"
    /\ pc' = "raised"
    /\ UNCHANGED <<prompts, execLog, llmCalls, session, locals, events, chunkReqs, consumer>>
    /\ UNCHANGED batchVars

\* agent.py:609-629: the streaming model raises and the outer handler
\* yields an error event
StreamRaises(msg) ==
    /\ pc = "await_chunk"
    /\ events' = Append(events, error_event(Str(msg)))
    /\ pc' = "yield_error"
    /\ UNCHANGED <<prompts, execLog, llmCalls, session, locals, chunkReqs, consumer>>
    /\ UNCHANGED batchVars

\* agent.py:606, 629: resumed after the canned token or after the outer
\* handler's error event, the generator returns
StreamFinish ==
    /\ pc \in {"yield_canned", "yield_error"}
    /\ pc' = "stream_done"
    /\ UNCHANGED <<prompts, execLog, llmCalls, session, locals, events, chunkReqs, consumer>>
    /\ UNCHANGED batchVars

\* a pipeline that keeps running when nobody reads it any more
Abandon_ignored ==
    /\ consumer = "reading"
    /\ events # <<>>
    /\ Suspended \/ pc = "await_chunk"
    /\ consumer' = "abandoned"
    /\ UNCHANGED <<pc, prompts, execLog, llmCalls, session, locals, events, chunkReqs>>
    /\ UNCHANGED batchVars

\* agent.py:538-629: the caller stops reading after an event. The generator
\* is never resumed, or is closed or cancelled at the yield or await where it
\* is suspended: GeneratorExit and CancelledError are not Exception, so
\* neither handler runs
Abandon ==
    /\ consumer = "reading"
    /\ events # <<>>
    /\ Suspended \/ pc = "await_chunk"
    /\ consumer' = "abandoned"
    /\ pc' = "stream_closed"
    /\ UNCHANGED <<prompts, execLog, llmCalls, session, locals, events, chunkReqs>>
    /\ UNCHANGED batchVars

StreamNext ==
    \/ \E response \in GenResponses : StreamGenerateOk(response)
    \/ \E msg \in ModelErrors : StreamGenerateRaises(msg)
    \/ StreamOpenSession
    \/ \E outcome \in StoreOutcomes : StreamExecute(outcome)
    \/ StreamNoResults
    \/ StreamStart
    \/ \E content \in ChunkContents : StreamChunk(content)
    \/ StreamNextChunk
    \/ StreamEnd
    \/ \E msg \in ModelErrors : StreamRaises(msg)
    \/ StreamFinish
    \/ Abandon

StreamSpec == StreamInit /\ [][StreamNext]_vars

\* the caller keeps asking for the next event or abandons the stream, and
\* every collaborator call returns or raises
StreamFairSpec == StreamSpec /\ WF_vars(StreamNext)

\* Both entry points of the agent: a request is either a batch request or a
\* streaming request
AllInit == Init \/ StreamInit

AllNext == Next \/ StreamNext

AllSpec == AllInit /\ [][AllNext]_vars

\* ------------------------------------------------------------------------
\* Properties of process_query_streaming
\* ------------------------------------------------------------------------

GenerationRaised == \E i \in 1..Len(prompts) : prompts[i].raised

ExecutionRaised == \E i \in 1..Len(execLog) : ~execLog[i].outcome.ok

EventTypes == [i \in 1..Len(events) |-> events[i].type]

\* C14: a streaming request performs at most one generation and at most one
\* execution, exactly one of each when the generation does not raise, and
\* no generation prompt ever carries an execution failure
C14_SinglePass ==
    /\ Len(prompts) <= 1
    /\ Len(execLog) <= 1
    /\ llmCalls <= 2
    /\ \A i \in 1..Len(prompts) : prompts[i].prompt.error_context = <<>>
    /\ (pc = "stream_done" /\ ~GenerationRaised) =>
           Len(prompts) = 1 /\ Len(execLog) = 1

C14_Witness ==
    /\ pc = "stream_done"
    /\ Len(prompts) = 1
    /\ Len(execLog) = 1
    /\ ExecutionRaised

\* C15: once an error event is emitted no further event is produced: an
\* error event is always the last event of the stream
C15_ErrorIsLast ==
    \A i \in 1..Len(events) : events[i].type = "error" => i = Len(events)

\* C16 as stated: when neither generation nor execution raises, the finished
\* stream is one query event, one data event with all normalized rows, then
\* token events only
C16_QueryDataTokens ==
    (pc = "stream_done" /\ ~GenerationRaised /\ ~ExecutionRaised) =>
        /\ Len(events) >= 2
        /\ events[1] = cypher_event(ExtractCypher(prompts[1].response))
        /\ events[2].type = "data"
        /\ events[2].data = serializable_results(execLog[1].outcome.rows)
        /\ \A i \in 3..Len(events) : events[i].type = "token"

\* C16 amended: when neither generation nor execution raises, the stream is
\* one query event, then one data event with all normalized rows, then token
\* events, closed by one error event when the token stream raises; no data
\* event before the query event and no token event before the data event
C16_QueryDataTokensThenError ==
    (~GenerationRaised /\ ~ExecutionRaised) =>
        /\ \A i \in 1..Len(events) :
              /\ i = 1 => events[i] = cypher_event(ExtractCypher(prompts[1].response))
              /\ i = 2 => /\ events[i].type = "data"
                          /\ events[i].data =
                                 serializable_results(execLog[1].outcome.rows)
              /\ i > 2 => \/ events[i].type = "token"
                          \/ /\ events[i].type = "error"
                             /\ i = Len(events)
                             /\ pc \in {"yield_error", "stream_done", "stream_closed"}
        /\ pc = "stream_done" => Len(events) >= 2

C16_Witness ==
    /\ pc = "stream_done"
    /\ Len(execLog) = 1
    /\ execLog[1].outcome.ok
    /\ Len(execLog[1].outcome.rows) = 2
    /\ EventTypes = <<"cypher", "data", "token", "token">>

\* C18: a streaming request whose query succeeds with zero rows emits
\* exactly one token event, the canned text naming the question, after a
\* data event with empty rows tagged 'text', and never calls the streaming
\* model
C18_StreamNoResults ==
    (Len(execLog) = 1 /\ execLog[1].outcome.ok /\ execLog[1].outcome.rows = <<>>) =>
        /\ chunkReqs = 0
        /\ llmCalls = 1
        /\ Len(events) <= 3
        /\ events[2] = [type |-> "data", data |-> <<>>, data_type |-> "text"]
        /\ Len(events) = 3 =>
              /\ events[3].type = "token"
              /\ events[3].content =
                     <<"I couldn't find any results for your query: '",
                       locals.question,
                       "'. Try rephrasing or ask about anomalies, tracks, or inspections.">>
        /\ pc = "stream_done" => Len(events) = 3

C18_Witness ==
    /\ pc = "stream_done"
    /\ Len(execLog) = 1
    /\ execLog[1].outcome.ok
    /\ execLog[1].outcome.rows = <<>>
    /\ EventTypes = <<"cypher", "data", "token">>
    /\ Contains(events[3].content, <<"Show me all critical cracks">>)

\* C19: a store session is open only inside one execute call; while a
\* generation, a synthesis or the hand-off of a streamed event is in
\* progress no session is open
C19_SessionOnlyInExecute ==
    /\ session \in {0, 1}
    /\ session = 1 <=> pc \in {"execute_cypher", "stream_execute_cypher"}
    /\ pc \in {"query_generator", "stream_generate"} => session = 0
    /\ pc \in {"response_synthesizer", "await_chunk"} => session = 0
    /\ Suspended => session = 0

C19_Witness ==
    /\ pc = "query_generator"
    /\ Len(execLog) = 1
    /\ ~execLog[1].outcome.ok
    /\ session = 0

\* C20: after the caller abandons a streaming request nothing more happens:
\* no further chunk request, no further event, no model call, no store call,
\* and no store session is held
C20_AbandonedIsQuiet ==
    /\ [](consumer = "abandoned" => session = 0)
    /\ [][consumer = "abandoned" =>
             UNCHANGED <<events, chunkReqs, llmCalls, prompts, execLog, session>>]_vars
    /\ [][consumer' = "abandoned" =>
             UNCHANGED <<events, chunkReqs, llmCalls, prompts, execLog, session>>]_vars

C20_Witness ==
    /\ consumer = "abandoned"
    /\ EventTypes = <<"cypher", "data", "token">>
    /\ chunkReqs = 1
    /\ locals.serializable_results # <<>>

\* ------------------------------------------------------------------------
\* The data classification tag: chat_endpoint and the streaming data event
\* ------------------------------------------------------------------------

\* the tracks test made before the anomalies test
chat_data_type_tracks_first(data) ==
    IF data = None \/ data[1] = <<>> THEN "text"
    ELSE LET first_record == DOMAIN data[1][1]
         IN IF "track_id" \in first_record \/ "track_name" \in first_record
            THEN "tracks"
            ELSE IF "anomaly_type" \in first_record \/ "type" \in first_record
                    \/ "severity" \in first_record
                 THEN "anomalies"
                 ELSE IF "count" \in first_record THEN "stats" ELSE "text"

\* main.py:147-156, data is the optional row list of the batch result
chat_data_type(data) ==
    IF data = None \/ data[1] = <<>> THEN "text"
    ELSE LET first_record == DOMAIN data[1][1]
         IN IF "anomaly_type" \in first_record \/ "type" \in first_record
               \/ "severity" \in first_record
            THEN "anomalies"
            ELSE IF "track_id" \in first_record \/ "track_name" \in first_record
                 THEN "tracks"
                 ELSE IF "count" \in first_record THEN "stats" ELSE "text"

\* main.py:160-166, the response built from the result of process_query
chat_response(r) ==
    [answer |-> r.answer,
     cypher_query |-> r.cypher_query,
     data |-> IF r.data = None THEN <<>> ELSE r.data[1],
     data_type |-> chat_data_type(r.data),
     error |-> r.error]

\* field names a row may carry
TagFields ==
    {"anomaly_type", "type", "severity", "track_id", "track_name", "count", "name"}

\* rows with every combination of the field names
TagRows == {[f \in fields |-> Scalar("x")] : fields \in SUBSET TagFields}

\* row lists: none, one row, or one row followed by one of two other rows
TagResults ==
    {<<>>}
    \cup {<<r>> : r \in TagRows}
    \cup {<<r, [count |-> Scalar("5")]>> : r \in TagRows}
    \cup {<<r, [severity |-> Scalar("HIGH"), track_id |-> Scalar("T1")]>> : r \in TagRows}

\* both entry points hold the same normalized rows and are about to tag them
TagInit ==
    /\ pc = "classify"
    /\ \E q \in Questions, rows \in TagResults :
          /\ locals = [stream_locals(q) EXCEPT !.serializable_results = rows]
          /\ state = [initial_state(q) EXCEPT !.db_results = rows,
                                              !.structured_data = Some(rows)]
    /\ result = Some(query_result(state))
    /\ decisions = <<>>
    /\ terminals = <<>>
    /\ NothingYet

\* agent.py:587-598: the streaming entry point tags its rows
ClassifyStream ==
    /\ pc = "classify"
    /\ events = <<>>
    /\ events' = <<data_event(locals.serializable_results)>>
    /\ UNCHANGED <<pc, state, result, prompts, execLog, decisions, terminals,
                   llmCalls, session, locals, chunkReqs, consumer, chat, peer, asked, conn>>

\* main.py:145-166: the chat endpoint tags the rows of the batch result
ClassifyChat ==
    /\ pc = "classify"
    /\ chat = None
    /\ chat' = Some(chat_response(result[1]))
    /\ UNCHANGED <<pc, state, result, prompts, execLog, decisions, terminals,
                   llmCalls, session, locals, events, chunkReqs, consumer, peer, asked, conn>>

TagNext == ClassifyStream \/ ClassifyChat

TagSpec == TagInit /\ [][TagNext]_vars

\* the tag the classification rule gives to a set of field names
TagOfFields(fields) ==
    IF fields \cap {"anomaly_type", "type", "severity"} # {} THEN "anomalies"
    ELSE IF fields \cap {"track_id", "track_name"} # {} THEN "tracks"
    ELSE IF "count" \in fields THEN "stats"
    ELSE "text"

TagOfRows(rows) == IF rows = <<>> THEN "text" ELSE TagOfFields(DOMAIN rows[1])

\* C17: the tag depends on the first row's field names only, with the
\* precedence anomalies, tracks, stats, text, and is 'text' without rows;
\* the streaming data event and the chat endpoint give the same rows the
\* same tag
C17_SameTag ==
    /\ events # <<>> =>
          /\ events[1].data = locals.serializable_results
          /\ events[1].data_type = TagOfRows(locals.serializable_results)
    /\ chat # None =>
          /\ chat[1].data = locals.serializable_results
          /\ chat[1].data_type = TagOfRows(locals.serializable_results)
    /\ (events # <<>> /\ chat # None) => events[1].data_type = chat[1].data_type

C17_Witness ==
    /\ events # <<>>
    /\ chat # None
    /\ Len(locals.serializable_results) = 2
    /\ DOMAIN locals.serializable_results[1] = {"severity", "track_id", "count"}
    /\ events[1].data_type = "anomalies"
    /\ chat[1].data_type = "anomalies"

\* ------------------------------------------------------------------------
\* Two batch requests at the same time
\* ------------------------------------------------------------------------

\* what the store answers to the two concurrent requests
ConcOutcomes ==
    {[ok |-> TRUE, rows |-> <<r>>, msg |-> ""] :
        r \in {x \in StoreRows : "count" \in DOMAIN x}}
    \cup {[ok |-> FALSE, rows |-> <<>>, msg |-> "Invalid property name"]}

\* agent.py:513-526, the second request as process_query creates it: its own
\* AgentState, with the responses and outcomes its nodes were handed
peer_request(question) ==
    [pc |-> "query_generator",
     state |-> initial_state(question),
     result |-> None,
     responses |-> <<>>,
     outcomes |-> <<>>]

\* process_query is entered a second time while the first request runs
PeerEnter(question) ==
    /\ peer = None
    /\ peer' = Some(peer_request(question))
    /\ UNCHANGED <<pc, state, result, prompts, execLog, decisions, terminals,
                   llmCalls, session, locals, events, chunkReqs, consumer, chat, asked, conn>>

\* query_generator of the second request
PeerGenerate(response) ==
    /\ peer # None
    /\ peer[1].pc = "query_generator"
    /\ peer' = Some([peer[1] EXCEPT
                        !.state = query_generator(peer[1].state, response),
                        !.responses = Append(@, response),
                        !.pc = "query_executor"])
    /\ UNCHANGED <<pc, state, result, prompts, execLog, decisions, terminals,
                   llmCalls, session, locals, events, chunkReqs, consumer, chat, asked, conn>>

\* nodes that keep the AgentState in one module-level object: the second
\* request's query_executor reads and writes the state of the first
PeerExecute_shared_state(outcome) ==
    /\ peer # None
    /\ peer[1].pc = "query_executor"
    /\ state' = query_executor(state, outcome)
    /\ peer' = Some([peer[1] EXCEPT
                        !.state = query_executor(state, outcome),
                        !.outcomes = Append(@, outcome),
                        !.pc = "should_retry"])
    /\ UNCHANGED <<pc, result, prompts, execLog, decisions, terminals,
                   llmCalls, session, locals, events, chunkReqs, consumer, chat, asked, conn>>

\* query_executor of the second request
PeerExecute(outcome) ==
    /\ peer # None
    /\ peer[1].pc = "query_executor"
    /\ peer' = Some([peer[1] EXCEPT
                        !.state = query_executor(peer[1].state, outcome),
                        !.outcomes = Append(@, outcome),
                        !.pc = "should_retry"])
    /\ UNCHANGED <<pc, state, result, prompts, execLog, decisions, terminals,
                   llmCalls, session, locals, events, chunkReqs, consumer, chat, asked, conn>>

\* the conditional edge of the second request
PeerRoute ==
    /\ peer # None
    /\ peer[1].pc = "should_retry"
    /\ peer' = Some([peer[1] EXCEPT !.pc = edge_target(should_retry(peer[1].state))])
    /\ UNCHANGED <<pc, state, result, prompts, execLog, decisions, terminals,
                   llmCalls, session, locals, events, chunkReqs, consumer, chat, asked, conn>>

\* response_synthesizer of the second request
PeerSynthesize(answer) ==
    /\ peer # None
    /\ peer[1].pc = "response_synthesizer"
    /\ peer' = Some([peer[1] EXCEPT
                        !.state = response_synthesizer(peer[1].state, answer),
                        !.pc = "END"])
    /\ UNCHANGED <<pc, state, result, prompts, execLog, decisions, terminals,
                   llmCalls, session, locals, events, chunkReqs, consumer, chat, asked, conn>>

\* fail_handler of the second request
PeerFail ==
    /\ peer # None
    /\ peer[1].pc = "fail_handler"
    /\ peer' = Some([peer[1] EXCEPT !.state = handle_failure(peer[1].state),
                                    !.pc = "END"])
    /\ UNCHANGED <<pc, state, result, prompts, execLog, decisions, terminals,
                   llmCalls, session, locals, events, chunkReqs, consumer, chat, asked, conn>>

\* process_query of the second request returns
PeerReturn ==
    /\ peer # None
    /\ peer[1].pc = "END"
    /\ peer' = Some([peer[1] EXCEPT !.result = Some(query_result(peer[1].state)),
                                    !.pc = "returned"])
    /\ UNCHANGED <<pc, state, result, prompts, execLog, decisions, terminals,
                   llmCalls, session, locals, events, chunkReqs, consumer, chat, asked, conn>>

ConcInit == Init

\* any interleaving of the steps of the two requests
ConcNext ==
    \/ \E response \in GenResponses : GenerateOk(response)
    \/ OpenSession
    \/ \E outcome \in ConcOutcomes : Execute(outcome)
    \/ Route
    \/ \E answer \in SynthAnswers : SynthesizeOk(answer)
    \/ Fail
    \/ Return
    \/ \E question \in Questions : PeerEnter(question)
    \/ \E response \in GenResponses : PeerGenerate(response)
    \/ \E outcome \in ConcOutcomes : PeerExecute(outcome)
    \/ PeerRoute
    \/ \E answer \in SynthAnswers : PeerSynthesize(answer)
    \/ PeerFail
    \/ PeerReturn

ConcSpec == ConcInit /\ [][ConcNext]_vars

RECURSIVE run_workflow(_, _, _, _, _)
\* agent.py:459-477, the workflow run on its own from attempt i in state s,
\* handed responses by the model and outcomes by the store
run_workflow(s, i, responses, outcomes, answer) ==
    LET executed == query_executor(query_generator(s, responses[i]), outcomes[i])
        decision == should_retry(executed)
    IN CASE decision = "retry" ->
              run_workflow(executed, i + 1, responses, outcomes, answer)
         [] decision = "synthesize" -> response_synthesizer(executed, answer)
         [] decision = "fail" -> handle_failure(executed)

\* agent.py:513-535, process_query run on its own
run_alone(question, responses, outcomes, answer) ==
    query_result(run_workflow(initial_state(question), 1, responses, outcomes, answer))

\* C21: two batch requests interleaved in any way do not affect each other:
\* each starts from its own fresh state, no step of one changes the state
\* or the result of the other, and the result of each is the result of
\* running it alone with the responses and outcomes it was handed
C21_Isolation ==
    /\ [](prompts = <<>> =>
              \E q \in Questions : state = initial_state(q))
    /\ []((peer # None /\ peer[1].responses = <<>>) =>
              \E q \in Questions : peer[1].state = initial_state(q))
    /\ [](result # None =>
              \E answer \in SynthAnswers :
                  result[1] = run_alone(prompts[1].prompt.question,
                                        [i \in 1..Len(prompts) |-> prompts[i].response],
                                        [i \in 1..Len(execLog) |-> execLog[i].outcome],
                                        answer))
    /\ []((peer # None /\ peer[1].result # None) =>
              \E q \in Questions, answer \in SynthAnswers :
                  peer[1].result[1] =
                      run_alone(q, peer[1].responses, peer[1].outcomes, answer))
    /\ [][(peer' # peer) => (state' = state /\ result' = result)]_vars
    /\ [][(state' # state \/ result' # result) => peer' = peer]_vars

C21_Witness ==
    /\ result # None
    /\ peer # None
    /\ peer[1].result # None
    /\ result[1].retries = 1
    /\ peer[1].result[1].retries = MAX_RETRIES
    /\ result[1].question # peer[1].result[1].question
    /\ result[1].data # Some(<<>>)

\* C22: within one batch request the steps alternate strictly generation,
\* execution, decision: every execution runs the query of the generation
\* just before it, no query is executed again without a generation in
\* between, and a terminal node runs only right after a router decision
C22_StrictAlternation ==
    /\ [](/\ Len(execLog) <= Len(prompts)
          /\ Len(prompts) <= Len(execLog) + 1
          /\ Len(decisions) <= Len(execLog)
          /\ Len(execLog) <= Len(decisions) + 1
          /\ \A i \in 1..Len(execLog) :
                /\ ~prompts[i].raised
                /\ execLog[i].query = ExtractCypher(prompts[i].response))
    /\ [][/\ prompts' # prompts =>
                /\ Len(prompts) = Len(execLog)
                /\ Len(execLog) = Len(decisions)
                /\ decisions # <<>> => Last(decisions) = "retry"
          /\ execLog' # execLog =>
                /\ Len(prompts) = Len(execLog) + 1
                /\ Len(decisions) = Len(execLog)
          /\ decisions' # decisions =>
                /\ Len(execLog) = Len(decisions) + 1
                /\ Len(prompts) = Len(execLog)
          /\ terminals' # terminals =>
                /\ decisions # <<>>
                /\ Len(decisions) = Len(execLog)
                /\ Len(prompts) = Len(execLog)
                /\ terminals = <<>>
                /\ Last(terminals') =
                       IF Last(decisions) = "synthesize"
                       THEN "response_synthesizer" ELSE "fail_handler"
                /\ Last(decisions) # "retry"]_vars

C22_Witness ==
    /\ pc = "returned"
    /\ Len(prompts) = 3
    /\ Len(execLog) = 3
    /\ decisions = <<"retry", "retry", "synthesize">>
    /\ execLog[1].query # execLog[2].query
    /\ execLog[2].query # execLog[3].query
    /\ terminals = <<"response_synthesizer">>

\* the request has ended with an exception of a generative-model call
Aborted == pc = "raised"

\* C23 as stated: every batch request whose collaborator calls all return,
\* successfully or with an error, eventually reaches END after at most R
\* generations, at most R executions and at most one terminal step
C23_ReachesEnd ==
    /\ [](/\ Len(prompts) <= MAX_RETRIES
          /\ Len(execLog) <= MAX_RETRIES
          /\ Len(terminals) <= 1)
    /\ <>Finished

\* C23 amended: every batch request whose collaborator calls all return or
\* raise eventually ends, at END or aborted by the exception of a
\* generative-model call, after at most R generations, at most R executions
\* and at most one terminal step; it reaches END when no model call raises
C23_EndsOrAborts ==
    /\ [](/\ Len(prompts) <= MAX_RETRIES
          /\ Len(execLog) <= MAX_RETRIES
          /\ Len(terminals) <= 1
          /\ llmCalls <= MAX_RETRIES + 1)
    /\ <>(Finished \/ Aborted)
    /\ []<>(Finished \/ Aborted)
    /\ [](Aborted => /\ [] Aborted
                     /\ \/ Last(prompts).raised
                        \/ terminals = <<"response_synthesizer">>)

C23_Witness ==
    /\ Aborted
    /\ Len(prompts) = MAX_RETRIES
    /\ Last(prompts).raised
    /\ Len(execLog) = MAX_RETRIES - 1
    /\ terminals = <<>>

\* ------------------------------------------------------------------------
\* Normalization of the store's records
\* ------------------------------------------------------------------------

\* a list-valued field, e.g. the value of collect(...)
List(items) == [kind |-> "list", val |-> items]

\* values without attributes isoformat or __dict__, and the two handle kinds
HandleValues ==
    {Scalar("5"), DateTime("2025-01-10T14:30:00"), Node("anomaly_id: ANOM-1")}

\* field values the store may return: a scalar, a date/time, a node, or a
\* list of up to two of them
FieldValues ==
    HandleValues \cup {List(items) : items \in SeqsUpTo(HandleValues, 2)}

\* results of one record whose field v holds any of the values
NormalizeOutcomes ==
    {[ok |-> TRUE, rows |-> <<[v |-> x]>>, msg |-> ""] : x \in FieldValues}

\* a generation has produced a query and the executor of either entry point
\* is about to run it
NormalizeInit ==
    /\ \E q \in Questions, response \in GenResponses :
          /\ state = query_generator(initial_state(q), response)
          /\ locals = [stream_locals(q) EXCEPT !.cypher = ExtractCypher(response)]
          /\ prompts = <<[prompt |-> generation_prompt(initial_state(q)),
                          response |-> response,
                          raised |-> FALSE]>>
    /\ pc \in {"query_executor", "yield_cypher"}
    /\ events = IF pc = "yield_cypher" THEN <<cypher_event(locals.cypher)>> ELSE <<>>
    /\ result = None
    /\ decisions = <<>>
    /\ terminals = <<>>
    /\ execLog = <<>>
    /\ llmCalls = 1
    /\ session = 0
    /\ chunkReqs = 0
    /\ consumer = "reading"
    /\ chat = None
    /\ peer = None
    /\ asked = <<>>
    /\ conn = no_connection

NormalizeNext ==
    \/ OpenSession
    \/ \E outcome \in NormalizeOutcomes : Execute(outcome)
    \/ StreamOpenSession
    \/ \E outcome \in NormalizeOutcomes : StreamExecute(outcome)

NormalizeSpec == NormalizeInit /\ [][NormalizeNext]_vars

RECURSIVE IsPlain(_)
\* a plain scalar or string, a plain mapping, or a sequence of plain values
IsPlain(v) ==
    CASE v.kind \in {"scalar", "str", "dict"} -> TRUE
      [] v.kind = "list" -> \A i \in 1..Len(v.val) : IsPlain(v.val[i])
      [] OTHER -> FALSE

AllPlain(rows) ==
    \A i \in 1..Len(rows) : \A key \in DOMAIN rows[i] : IsPlain(rows[i][key])

\* C24: in every row the executor returns, every field value is plain and
\* never a store handle, also when the handle is nested in a list-valued
\* field; a date/time becomes its ISO string and a node a plain mapping
C24_RowsArePlain ==
    /\ AllPlain(state.db_results)
    /\ AllPlain(locals.serializable_results)
    /\ \A i \in 1..Len(events) : events[i].type = "data" => AllPlain(events[i].data)

\* the same for values that are not nested: the part of C24 that holds
TopLevelPlain ==
    \A i \in 1..Len(execLog) :
        execLog[i].outcome.rows[1].v.kind # "list" =>
            /\ AllPlain(state.db_results)
            /\ AllPlain(locals.serializable_results)

\* ------------------------------------------------------------------------
\* The extraction of the query from any model response
\* ------------------------------------------------------------------------

\* pieces a model response is made of: the fence, two language tags, a line
\* break and a query text
ResponseChunks == {"<fence>", "cypher", "sql", "\n", "MATCH (n) RETURN n"}

ExtractResponses == SeqsUpTo(ResponseChunks, MaxResponseLen)

\* a request of either entry point about to call the model
ExtractInit ==
    /\ pc \in {"query_generator", "stream_generate"}
    /\ state \in {initial_state(q) : q \in Questions}
    /\ locals = stream_locals(state.question)
    /\ result = None
    /\ decisions = <<>>
    /\ terminals = <<>>
    /\ NothingYet

ExtractNext ==
    \/ \E response \in ExtractResponses : GenerateOk(response)
    \/ \E response \in ExtractResponses : StreamGenerateOk(response)

ExtractSpec == ExtractInit /\ [][ExtractNext]_vars

\* the model has answered and the query has been extracted
Extracted == prompts # <<>>

Response == prompts[1].response

Query == IF pc = "query_executor" THEN state.cypher_query ELSE locals.cypher

FencesAt(r) == {i \in 1..Len(r) : r[i] = "<fence>"}

LanguageTags == {"cypher", "sql"}

\* r without its leading and trailing white space
Trimmed(r) ==
    LET kept == {i \in 1..Len(r) : r[i] \notin {" ", "\n"}}
    IN IF kept = {} THEN <<>>
       ELSE SubSeq(r, CHOOSE i \in kept : \A j \in kept : i <= j,
                      CHOOSE i \in kept : \A j \in kept : j <= i)

\* the response is one fenced block: it starts with a fence, ends with a
\* fence, has no other fence, and its opening line is the fence alone or
\* the fence with a language tag
OneFencedBlock(r) ==
    LET block == Trimmed(r)
    IN /\ Cardinality(FencesAt(r)) = 2
       /\ block[1] = "<fence>"
       /\ block[Len(block)] = "<fence>"
       /\ \/ block[2] = "\n"
          \/ block[2] \in LanguageTags /\ block[3] = "\n"

\* what lies between the fences of a fenced block, after its opening line
BlockContent(r) ==
    LET block == Trimmed(r)
    IN SubSeq(block, IF block[2] \in LanguageTags THEN 3 ELSE 2, Len(block) - 1)

\* C25: from a response wrapped in a fenced code block, with a plain fence
\* or a fence with any language tag, the extraction returns the trimmed
\* content between the fences without the tag
C25_FenceAndTagStripped ==
    (Extracted /\ OneFencedBlock(Response)) =>
        Query = Trimmed(BlockContent(Response))

\* C26: from a response without any fence the extraction returns the
\* response unchanged apart from the trimming of leading and trailing
\* white space
C26_NoFenceTrimmed ==
    (Extracted /\ FencesAt(Response) = {}) => Query = Trimmed(Response)

C26_Witness ==
    /\ Extracted
    /\ pc = "query_executor"
    /\ Response = <<"\n", "MATCH (n) RETURN n", "\n", "cypher", "\n">>
    /\ Query = <<"MATCH (n) RETURN n", "\n", "cypher">>

\* C27: the extraction never fails, and from a response with an opening
\* fence and no closing fence it returns the full trimmed response
C27_UnbalancedFallsBack ==
    (Extracted /\ Cardinality(FencesAt(Response)) = 1) =>
        Query = Trimmed(Response)

\* ------------------------------------------------------------------------
\* The response synthesizer on any number of rows
\* ------------------------------------------------------------------------

\* n normalized rows, told apart by their id
numbered_rows(n) == [i \in 1..n |-> [id |-> Scalar(i)]]

\* the router has just sent a request with n rows to response_synthesizer
SynthInit ==
    /\ pc = "response_synthesizer"
    /\ \E q \in Questions, response \in GenResponses, n \in 0..MaxSynthRows :
          /\ state = [query_generator(initial_state(q), response)
                         EXCEPT !.db_results = numbered_rows(n)]
          /\ locals = stream_locals(q)
          /\ prompts = <<[prompt |-> generation_prompt(initial_state(q)),
                          response |-> response,
                          raised |-> FALSE]>>
          /\ execLog = <<[query |-> ExtractCypher(response),
                          outcome |-> [ok |-> TRUE, rows |-> numbered_rows(n), msg |-> ""]]>>
    /\ decisions = <<"synthesize">>
    /\ terminals = <<>>
    /\ result = None
    /\ llmCalls = 1
    /\ session = 0
    /\ events = <<>>
    /\ chunkReqs = 0
    /\ consumer = "reading"
    /\ chat = None
    /\ peer = None
    /\ asked = <<>>
    /\ conn = no_connection

SynthNext ==
    \/ \E answer \in SynthAnswers : SynthesizeOk(answer)
    \/ SynthesizeRaises
    \/ Return

SynthSpec == SynthInit /\ [][SynthNext]_vars

RECURSIVE DecimalValue(_)
\* the number a sequence of digits reads as
DecimalValue(digits) ==
    IF digits = <<>> THEN 0
    ELSE 10 * DecimalValue(SubSeq(digits, 1, Len(digits) - 1))
         + (CHOOSE d \in 0..9 : Digits[d + 1] = digits[Len(digits)])

\* C28: when the synthesizer runs on n > 0 rows, the text given to the model
\* lists exactly the first min(n, 20) rows, numbered from 1 in their order,
\* with a line giving the count n - 20 of the remaining rows exactly when
\* n > 20, and structured_data is set to all n rows in order
C28_ClippedPromptFullPayload ==
    LET rows == execLog[1].outcome.rows
        n == Len(rows)
    IN /\ asked # <<>> =>
             LET text == asked[1].results
             IN /\ n > 0
                /\ Len(asked) = 1
                /\ Len(text.lines) = IF n < 20 THEN n ELSE 20
                /\ \A i \in 1..Len(text.lines) :
                      /\ DecimalValue(text.lines[i].number) = i
                      /\ text.lines[i].record = rows[i]
                /\ text.more # None <=> n > 20
                /\ n > 20 => DecimalValue(text.more[1]) = n - 20
       /\ (Finished /\ n > 0) =>
             /\ asked # <<>>
             /\ state.structured_data = Some(rows)
       /\ (Finished /\ n = 0) => asked = <<>>

C28_Witness ==
    /\ pc = "returned"
    /\ Len(execLog[1].outcome.rows) = 22
    /\ Len(asked[1].results.lines) = 20
    /\ asked[1].results.more = Some(<<"2">>)
    /\ Len(result[1].data[1]) = 22

\* C29: the failure handler calls no generative model: its step leaves the
\* number of model calls as it was, and on a request that ends through the
\* failure handler the model calls are exactly the generation attempts
C29_FailureHandlerSilent ==
    /\ [](terminals = <<"fail_handler">> =>
              /\ llmCalls = Len(prompts)
              /\ asked = <<>>)
    /\ [][pc = "fail_handler" => (llmCalls' = llmCalls /\ asked' = asked)]_vars

C29_Witness ==
    /\ pc = "returned"
    /\ terminals = <<"fail_handler">>
    /\ Len(prompts) = MAX_RETRIES
    /\ llmCalls = MAX_RETRIES
    /\ Contains(result[1].answer, <<"timed out">>)

\* every field of the state outside kept is left as it was
FrameExcept(kept) ==
    \A field \in (DOMAIN state) \ kept : state'[field] = state[field]

\* C30: each step changes only the fields it owns: the generator
\* cypher_query and error; the executor db_results, error and, on a failure
\* only, retry_count; the router nothing; a terminal node final_answer and
\* structured_data; question never changes and structured_data is None in
\* every state before a terminal node has run
C30_FrameEffect ==
    /\ [](terminals = <<>> => state.structured_data = None)
    /\ [][/\ state'.question = state.question
          /\ pc = "query_generator" => FrameExcept({"cypher_query", "error"})
          /\ pc = "query_executor" => FrameExcept({})
          /\ pc = "execute_cypher" =>
                /\ FrameExcept({"db_results", "error", "retry_count"})
                /\ Last(execLog').outcome.ok => state'.retry_count = state.retry_count
          /\ pc = "should_retry" => FrameExcept({})
          /\ pc \in {"response_synthesizer", "fail_handler"} =>
                FrameExcept({"final_answer", "structured_data"})
          /\ Finished => FrameExcept({})]_vars

C30_Witness ==
    /\ pc = "returned"
    /\ terminals = <<"fail_handler">>
    /\ state.question = prompts[1].prompt.question
    /\ state.error = Some("Invalid property name")
    /\ state.retry_count = MAX_RETRIES
    /\ state.cypher_query = ExtractCypher(Last(prompts).response)
    /\ state.structured_data = Some(<<>>)

\* C31: after a failed execution the router never answers synthesize: every
\* failed executor run is followed by retry or fail, whatever the error
\* message of the failure, the empty message included
C31_FailureNeverSynthesized ==
    \A i \in 1..Len(decisions) :
        ~execLog[i].outcome.ok => decisions[i] \in {"retry", "fail"}

\* C32: in the snapshot process_query returns, error is non-empty exactly
\* when the failure handler was the terminal node that ran; when the
\* synthesizer ran error is empty, and when the failure handler ran
\* retry_count is R
C32_ErrorIffFailed ==
    result # None =>
        /\ Truthy(result[1].error) <=> terminals = <<"fail_handler">>
        /\ terminals = <<"response_synthesizer">> =>
              result[1].error \in {None, Some("")}
        /\ terminals = <<"fail_handler">> =>
              /\ result[1].retries = MAX_RETRIES
              /\ result[1].error = Some(Last(execLog).outcome.msg)
        /\ terminals \in {<<"fail_handler">>, <<"response_synthesizer">>}

C32_Witness ==
    /\ result # None
    /\ terminals = <<"fail_handler">>
    /\ result[1].error = Some("timed out")
    /\ result[1].retries = MAX_RETRIES
    /\ execLog[1].outcome.msg = "Invalid property name"

ErrorEvents == {i \in 1..Len(events) : events[i].type = "error"}

\* the generator has returned, or was closed by a caller that stopped reading
StreamOver == pc \in {"stream_done", "stream_closed"}

\* C33: the streaming entry point never raises to its caller: a failure of
\* the generation, of the execution or of the token stream shows as an error
\* event carrying its message, the sequence then ends normally, and a run
\* has at most one error event
C33_FailuresAreEvents ==
    /\ [](/\ pc # "raised"
          /\ Cardinality(ErrorEvents) <= 1
          /\ GenerationRaised =>
                /\ Len(events) = 1
                /\ events[1].type = "error"
                /\ events[1].error \in {Str(m) : m \in ModelErrors}
          /\ ExecutionRaised =>
                /\ ErrorEvents = {2}
                /\ events[2].error =
                       <<"Database error: ">> \o Str(execLog[1].outcome.msg)
          /\ (ErrorEvents # {} /\ ~GenerationRaised /\ ~ExecutionRaised) =>
                /\ chunkReqs >= 1
                /\ ErrorEvents = {Len(events)}
                /\ Last(events).error \in {Str(m) : m \in ModelErrors})
    /\ [](ErrorEvents # {} => <>StreamOver)
    /\ [](pc = "yield_error" => ErrorEvents = {Len(events)})

C33_Witness ==
    /\ pc = "stream_done"
    /\ EventTypes = <<"cypher", "data", "token", "error">>
    /\ chunkReqs = 2

\* ------------------------------------------------------------------------
\* The same question given to the streaming and to the batch entry point
\* ------------------------------------------------------------------------

\* successful store results
PairOutcomes == {outcome \in StoreOutcomes : outcome.ok}

\* process_query is called with the question of the streaming request
PairEnter == PeerEnter(locals.question)

PairInit == StreamInit

\* the streaming request on the request's own variables, the batch request
\* as the second request, in any interleaving
PairNext ==
    \/ \E response \in GenResponses : StreamGenerateOk(response)
    \/ StreamOpenSession
    \/ \E outcome \in PairOutcomes : StreamExecute(outcome)
    \/ StreamNoResults
    \/ StreamStart
    \/ \E content \in ChunkContents : StreamChunk(content)
    \/ StreamNextChunk
    \/ StreamEnd
    \/ StreamFinish
    \/ PairEnter
    \/ \E response \in GenResponses : PeerGenerate(response)
    \/ \E outcome \in PairOutcomes : PeerExecute(outcome)
    \/ PeerRoute
    \/ \E answer \in SynthAnswers : PeerSynthesize(answer)
    \/ PeerReturn

PairSpec == PairInit /\ [][PairNext]_vars

\* the two requests were handed the same model response and store result
SameInputs ==
    /\ peer # None
    /\ peer[1].state.question = locals.question
    /\ peer[1].responses # <<>>
    /\ prompts # <<>>
    /\ peer[1].responses[1] = prompts[1].response
    /\ peer[1].outcomes # <<>> /\ execLog # <<>> =>
          peer[1].outcomes[1] = execLog[1].outcome

ChatErrors == ModelErrors \cup {""}

\* the error response that does not report the exception
chat_error_response_without_error(msg) ==
    [answer |-> <<"I encountered an error processing your request: ">> \o Str(msg),
     cypher_query |-> <<>>,
     data |-> <<>>,
     data_type |-> "text",
     error |-> None]

\* main.py:175-181, the response of the handler of Exception; cypher_query
\* and data take the defaults of ChatResponse
chat_error_response(msg) ==
    [answer |-> <<"I encountered an error processing your request: ">> \o Str(msg),
     cypher_query |-> <<>>,
     data |-> <<>>,
     data_type |-> "text",
     error |-> Some(msg)]

\* main.py:168-174, the response of the handler of ImportError
chat_import_response(msg) ==
    [answer |-> <<"The Graph-RAG system is not fully configured. Please ensure Neo4j is running and Ollama is available.">>,
     cypher_query |-> <<>>,
     data |-> <<>>,
     data_type |-> "text",
     error |-> Some(msg)]

\* main.py:143-166: process_query has returned and the endpoint builds its
\* response from the result
ChatRespond ==
    /\ pc = "returned"
    /\ chat' = Some(chat_response(result[1]))
    /\ pc' = "responded"
    /\ UNCHANGED <<state, result, prompts, execLog, decisions, terminals, llmCalls,
                   session, locals, events, chunkReqs, consumer, peer, asked, conn>>

\* main.py:175-181: process_query has raised an exception with text msg and
\* the endpoint answers with the error response
ChatCatch(msg) ==
    /\ pc = "raised"
    /\ chat' = Some(chat_error_response(msg))
    /\ pc' = "responded"
    /\ UNCHANGED <<state, result, prompts, execLog, decisions, terminals, llmCalls,
                   session, locals, events, chunkReqs, consumer, peer, asked, conn>>

\* main.py:141, 168-174: the import of backend.agent fails before
\* process_query is called
ChatImportFails ==
    /\ pc = "query_generator"
    /\ prompts = <<>>
    /\ chat' = Some(chat_import_response("No module named 'langgraph'"))
    /\ pc' = "responded"
    /\ UNCHANGED <<state, result, prompts, execLog, decisions, terminals, llmCalls,
                   session, locals, events, chunkReqs, consumer, peer, asked, conn>>

ChatNext ==
    \/ Next
    \/ ChatRespond
    \/ \E msg \in ChatErrors : ChatCatch(msg)
    \/ ChatImportFails

ChatSpec == Init /\ [][ChatNext]_vars

\* process_query runs on and the endpoint answers when it has returned or raised
ChatFairSpec == ChatSpec /\ WF_vars(ChatNext)

\* process_query raised, or could not be imported
ChatFailed == chat # None /\ result = None

\* C35 as stated: the chat endpoint always returns a response with a
\* non-empty answer; when process_query raises, the response carries the
\* exception message in error and has data_type 'text'
C35_AlwaysAnswers ==
    chat # None =>
        /\ chat[1].answer # <<>>
        /\ ChatFailed => (chat[1].error # None /\ chat[1].data_type = "text")

\* C35 amended: the chat endpoint always returns a response; when
\* process_query raises, the answer is non-empty, error carries the
\* exception message and data_type is 'text'; when process_query returns,
\* the answer is its final answer, which is empty only when the
\* synthesizer's model returned an empty text
C35_AlwaysResponds ==
    /\ <>(chat # None)
    /\ [](chat # None =>
             IF ChatFailed
             THEN /\ chat[1].answer # <<>>
                  /\ chat[1].error # None
                  /\ chat[1].data_type = "text"
                  /\ chat[1].data = <<>>
                  /\ prompts # <<>> =>
                        /\ Contains(chat[1].answer, Str(chat[1].error[1]))
                        /\ chat[1].answer =
                               <<"I encountered an error processing your request: ">>
                               \o Str(chat[1].error[1])
             ELSE /\ chat[1].answer = result[1].answer
                  /\ chat[1].error = result[1].error
                  /\ chat[1].answer = <<>> =>
                        /\ terminals = <<"response_synthesizer">>
                        /\ asked # <<>>)
    /\ [](pc = "raised" => chat = None)

C35_Witness ==
    /\ ChatFailed
    /\ terminals = <<"response_synthesizer">>
    /\ chat[1].error = Some("API quota exceeded")
    /\ chat[1].data_type = "text"
    /\ Len(execLog) = 2

\* ------------------------------------------------------------------------
\* Neo4jConnection.get_driver called from several threads
\* ------------------------------------------------------------------------

\* graph_db.py:88: thread t enters get_driver and tests cls._driver is None
GetDriverTest(t) ==
    /\ conn.callers[t] = "idle"
    /\ conn.made < MaxDrivers
    /\ conn' = [conn EXCEPT !.callers[t] =
                                IF conn.driver = None THEN "create" ELSE "return"]
    /\ UNCHANGED <<pc, state, result, prompts, execLog, decisions, terminals, llmCalls,
                   session, locals, events, chunkReqs, consumer, chat, peer, asked>>

\* graph_db.py:89-93: thread t, having found no driver, creates one and
\* stores it in cls._driver
GetDriverCreate(t) ==
    /\ conn.callers[t] = "create"
    /\ conn' = [conn EXCEPT !.driver = Some(conn.made + 1),
                            !.made = @ + 1,
                            !.created = @ + 1,
                            !.callers[t] = "return"]
    /\ UNCHANGED <<pc, state, result, prompts, execLog, decisions, terminals, llmCalls,
                   session, locals, events, chunkReqs, consumer, chat, peer, asked>>

\* graph_db.py:94: thread t returns what cls._driver holds now
GetDriverReturn(t) ==
    /\ conn.callers[t] = "return"
    /\ conn' = [conn EXCEPT !.received = @ \cup {conn.driver},
                            !.callers[t] = "idle"]
    /\ UNCHANGED <<pc, state, result, prompts, execLog, decisions, terminals, llmCalls,
                   session, locals, events, chunkReqs, consumer, chat, peer, asked>>

\* graph_db.py:96-101: close() closes the driver and forgets it
CloseDriver ==
    /\ conn.driver # None
    /\ conn' = [conn EXCEPT !.driver = None, !.created = 0, !.received = {}]
    /\ UNCHANGED <<pc, state, result, prompts, execLog, decisions, terminals, llmCalls,
                   session, locals, events, chunkReqs, consumer, chat, peer, asked>>

DriverInit == Init

DriverNext ==
    \/ \E t \in Threads : GetDriverTest(t)
    \/ \E t \in Threads : GetDriverCreate(t)
    \/ \E t \in Threads : GetDriverReturn(t)
    \/ CloseDriver

DriverSpec == DriverInit /\ [][DriverNext]_vars

\* C36: with callers of get_driver interleaved in any way, at most one
\* driver instance is created between two close() calls and every caller
\* receives that same instance
C36_OneDriver ==
    /\ conn.created <= 1
    /\ Cardinality(conn.received) <= 1

====
